---- MODULE Spec2Model ----
(***************************************************************************)
(* Model of scripts/sheet_to_truth.py (harmonium): the Event Lowerer       *)
(* (musicxml_to_truth), the Segmenter (split_and_convert / save_carol)     *)
(* and the Pipeline Driver (main).                                         *)
(*                                                                         *)
(* Timestamps are quarter-note steps.  The code holds them as floats; the  *)
(* model uses small naturals, on which float addition and comparison are   *)
(* exact.  The MusicalParams literal of the truth record is constant and   *)
(* read by no claim; the record keeps version, events and sample_rate.     *)
(***************************************************************************)
EXTENDS Naturals, Sequences, FiniteSets

VARIABLES
    \* ---- musicxml_to_truth, applied on its own (SpecLower)
    lpc,            \* "call" before the call, "done" after it returned
    score_notes,    \* score.flat.notes of the argument, in iteration order
    truth,          \* the returned truth record
    \* ---- split_and_convert (Spec)
    spc,            \* "loop" inside the loops of lines 123-142, "done" after line 146
    page_no,        \* number of xml files opened so far (position in xml_files)
    parts,          \* the list `parts` of the page being read (line 128)
    part_ix,        \* position of the part being read in `parts`
    meas_no,        \* measures read so far from the part being read
    stream,         \* every Measure handed to the loop body so far, in order
    current_carol,  \* the open accumulator (a Score: the sequence of its Measures)
    carol_count,
    saved,          \* the calls of save_carol, in order: the files written
    \* ---- main (SpecMain)
    mpc,            \* "start", "omr" (loop of lines 218-236), "split" (line 240), "exit"
    args,           \* the parsed command line: skip_omr and what the input path is
    env,            \* which collaborator libraries can be imported
    img_files,      \* the files of the directory line 217 lists
    images,         \* the sorted list `images` of line 217
    img_ix,         \* position in `images` of the next page to recognize
    xml_dir,        \* the notation files of temp/xml: page stem -> parsed score
    omr_calls,      \* the subprocess.run calls of line 233, in order
    split_calls,    \* number of calls of split_and_convert
    exit_code       \* the process's exit status once mpc = "exit"

lowerVars == <<lpc, score_notes, truth>>
segVars == <<spc, page_no, parts, part_ix, meas_no, stream, current_carol, carol_count, saved>>
mainVars == <<mpc, args, env, img_files, images, img_ix, xml_dir, omr_calls, split_calls, exit_code>>
vars == <<lowerVars, segVars, mainVars>>

----------------------------------------------------------------------------
\* Bounds of the model.
MaxEls == 2        \* note-bearing elements of a score given to the lowerer
MaxChord == 2      \* pitches of a chord
MaxPages == 2      \* xml files read by split_and_convert
MaxParts == 2      \* parts of one page
MaxMeasures == 2   \* Measures in the whole input stream
MaxImages == 3     \* distinct page stems among the image files

\* Program constants.
Velocity == 90
Channel == 0
SampleRate == 44100
FirstCarol == 1
PadWidth == 3

Pitches == {60, 64}
Offsets == {0, 1}
Durations == {0, 1}

----------------------------------------------------------------------------
\* Generic helpers.
RECURSIVE SeqsUpTo(_, _)
SeqsUpTo(S, n) ==
    IF n = 0 THEN {<<>>}
    ELSE LET shorter == SeqsUpTo(S, n - 1)
         IN shorter \cup {Append(s, x) : s \in {t \in shorter : Len(t) = n - 1}, x \in S}

RECURSIVE SumSeq(_)
SumSeq(s) == IF s = <<>> THEN 0 ELSE s[1] + SumSeq(Tail(s))

RECURSIVE Concat(_)
Concat(ss) == IF ss = <<>> THEN <<>> ELSE ss[1] \o Concat(Tail(ss))

----------------------------------------------------------------------------
\* musicxml_to_truth

\* A note-bearing element of score.flat.notes: a music21 Note (one pitch) or
\* Chord (two pitches or more, in chord order, possibly repeated).
Elements ==
    [isChord : {FALSE}, offset : Offsets, quarterLength : Durations,
     pitches : {<<p>> : p \in Pitches}]
    \cup
    [isChord : {TRUE}, offset : Offsets, quarterLength : Durations,
     pitches : {c \in SeqsUpTo(Pitches, MaxChord) : Len(c) >= 2}]

NoteOn(n) == [NoteOn |-> [note |-> n, velocity |-> Velocity, channel |-> Channel]]
NoteOff(n) == [NoteOff |-> [note |-> n, channel |-> Channel]]

\* lines 87-91
NotesFirstOnly(el) == <<el.pitches[1]>>
NotesToPlay(el) == IF el.isChord THEN el.pitches ELSE <<el.pitches[1]>>

\* lines 93-96, for one pitch
EmitOffFirst(el, n) ==
    << <<el.offset + el.quarterLength, NoteOff(n)>>, <<el.offset, NoteOn(n)>> >>
EmitPitch(el, n) ==
    << <<el.offset, NoteOn(n)>>, <<el.offset + el.quarterLength, NoteOff(n)>> >>

\* lines 84-96: the body of the loop over score.flat.notes
ExpandElement(el) ==
    LET notes_to_play == NotesToPlay(el)
    IN Concat([j \in 1..Len(notes_to_play) |-> EmitPitch(el, notes_to_play[j])])

\* lines 83-96: the loop
ExpandAll(notes) == Concat([i \in 1..Len(notes) |-> ExpandElement(notes[i])])

\* line 99: list.sort(key=timestamp) is stable.  Insertion from the right
\* behind every entry whose key is <= the new key gives the same list.
RECURSIVE InsertTiesFirst(_, _)
InsertTiesFirst(sorted, e) ==
    IF sorted = <<>> THEN <<e>>
    ELSE IF sorted[Len(sorted)][1] < e[1] THEN Append(sorted, e)
    ELSE Append(InsertTiesFirst(SubSeq(sorted, 1, Len(sorted) - 1), e), sorted[Len(sorted)])

RECURSIVE InsertByKey(_, _)
InsertByKey(sorted, e) ==
    IF sorted = <<>> THEN <<e>>
    ELSE IF sorted[Len(sorted)][1] <= e[1] THEN Append(sorted, e)
    ELSE Append(InsertByKey(SubSeq(sorted, 1, Len(sorted) - 1), e), sorted[Len(sorted)])

RECURSIVE SortEvents(_)
SortEvents(evs) ==
    IF evs = <<>> THEN <<>>
    ELSE InsertByKey(SortEvents(SubSeq(evs, 1, Len(evs) - 1)), evs[Len(evs)])

\* lines 22-108
musicxml_to_truth(notes) ==
    [version |-> "0.1.0-omr",
     events |-> SortEvents(ExpandAll(notes)),
     sample_rate |-> SampleRate]

NoTruth == [version |-> "none", events |-> <<>>, sample_rate |-> 0]

----------------------------------------------------------------------------
\* split_and_convert and save_carol

NoBarline == <<>>                       \* m.rightBarline is None
BarlineTypes == {"regular", "double", "final"}
Barlines == {NoBarline} \cup {<<t>> : t \in BarlineTypes}

AQuarter == [isChord |-> FALSE, offset |-> 0, quarterLength |-> 1, pitches |-> <<60>>]
MeasureContents == {<<>>, <<AQuarter>>}

\* A Measure of page pg, part pt (0: the score itself), the k-th of its part.
Measure(pg, pt, k, els, bar) ==
    [page |-> pg, part |-> pt, number |-> k, notes |-> els, rightBarline |-> bar]

\* line 128: parts = score.parts if len(score.parts) > 0 else [score]
PartsOf(nparts) == IF nparts > 0 THEN [i \in 1..nparts |-> i] ELSE <<0>>

\* line 136
IsFinal(m) == m.rightBarline # NoBarline /\ m.rightBarline[1] \in {"final", "double"}

\* Stream.append puts a Measure at the end of the Score (line 132), so in
\* score.flat a Measure's elements are shifted by the lengths before it.
RECURSIVE MaxEnd(_)
MaxEnd(els) ==
    IF els = <<>> THEN 0
    ELSE LET e == els[1].offset + els[1].quarterLength
             r == MaxEnd(Tail(els))
         IN IF e > r THEN e ELSE r

RECURSIVE FlatFrom(_, _)
FlatFrom(score, at) ==
    IF score = <<>> THEN <<>>
    ELSE [i \in 1..Len(score[1].notes) |->
             [score[1].notes[i] EXCEPT !.offset = @ + at]]
         \o FlatFrom(Tail(score), at + MaxEnd(score[1].notes))

\* score.flat.notes (lines 83, 145)
FlatNotes(score) == FlatFrom(score, 0)

\* f"{count:03d}": the decimal digits, zero-padded on the left to width 3
RECURSIVE Digits(_)
Digits(n) == IF n < 10 THEN <<n>> ELSE Append(Digits(n \div 10), n % 10)

RECURSIVE ZeroPad(_, _)
ZeroPad(ds, w) == IF Len(ds) >= w THEN ds ELSE ZeroPad(<<0>> \o ds, w)

\* line 149
CarolName(count) == <<"carol_">> \o ZeroPad(Digits(count), PadWidth)

\* lines 148-161: the two files one call writes
save_carol(score, count) ==
    [name |-> CarolName(count),
     xml_path |-> CarolName(count) \o <<".musicxml">>,
     truth_path |-> CarolName(count) \o <<".truth.json">>,
     score |-> score,
     truth |-> musicxml_to_truth(FlatNotes(score))]

\* The state split_and_convert carries through its loops (lines 117-118).
SegInit == [current_carol |-> <<>>, carol_count |-> FirstCarol, saved |-> <<>>]

\* lines 132-142: the loop body, for Measure m
LoopBodyNoCount(st, m) ==
    LET carol == Append(st.current_carol, m)
    IN IF IsFinal(m)
       THEN [current_carol |-> <<>>,
             carol_count |-> st.carol_count,
             saved |-> Append(st.saved, save_carol(carol, st.carol_count))]
       ELSE [st EXCEPT !.current_carol = carol]

LoopBodyAnyBarline(st, m) ==
    LET carol == Append(st.current_carol, m)
    IN IF m.rightBarline # NoBarline
       THEN [current_carol |-> <<>>,
             carol_count |-> st.carol_count + 1,
             saved |-> Append(st.saved, save_carol(carol, st.carol_count))]
       ELSE [st EXCEPT !.current_carol = carol]

LoopBody(st, m) ==
    LET carol == Append(st.current_carol, m)
    IN IF IsFinal(m)
       THEN [current_carol |-> <<>>,
             carol_count |-> st.carol_count + 1,
             saved |-> Append(st.saved, save_carol(carol, st.carol_count))]
       ELSE [st EXCEPT !.current_carol = carol]

\* lines 144-146
FlushAnyMeasure(st) ==
    IF Len(st.current_carol) > 0
    THEN [st EXCEPT !.saved = Append(@, save_carol(st.current_carol, st.carol_count))]
    ELSE st

Flush(st) ==
    IF Len(FlatNotes(st.current_carol)) > 0
    THEN [st EXCEPT !.saved = Append(@, save_carol(st.current_carol, st.carol_count))]
    ELSE st

SegState == [current_carol |-> current_carol, carol_count |-> carol_count, saved |-> saved]

SetSegState(st) ==
    /\ current_carol' = st.current_carol
    /\ carol_count' = st.carol_count
    /\ saved' = st.saved

\* line 123-128: the next xml file is parsed; it has nparts parts
OpenPage ==
    /\ spc = "loop"
    /\ page_no < MaxPages
    /\ part_ix = Len(parts)
    /\ \E nparts \in 0..MaxParts :
          /\ parts' = PartsOf(nparts)
          /\ part_ix' = 1
    /\ page_no' = page_no + 1
    /\ meas_no' = 0
    /\ UNCHANGED <<spc, stream, current_carol, carol_count, saved, lowerVars, mainVars>>

\* line 130: the Measures of the part are exhausted, the next part begins
NextPart ==
    /\ spc = "loop"
    /\ page_no > 0
    /\ part_ix < Len(parts)
    /\ part_ix' = part_ix + 1
    /\ meas_no' = 0
    /\ UNCHANGED <<spc, page_no, parts, stream, current_carol, carol_count, saved, lowerVars, mainVars>>

\* lines 131-142: one turn of the inner loop
ReadMeasure ==
    /\ spc = "loop"
    /\ page_no > 0
    /\ Len(stream) < MaxMeasures
    /\ \E els \in MeasureContents, bar \in Barlines :
          LET m == Measure(page_no, parts[part_ix], meas_no + 1, els, bar)
          IN /\ stream' = Append(stream, m)
             /\ SetSegState(LoopBody(SegState, m))
    /\ meas_no' = meas_no + 1
    /\ UNCHANGED <<spc, page_no, parts, part_ix, lowerVars, mainVars>>

\* lines 144-146: every file is read
Finish ==
    /\ spc = "loop"
    /\ part_ix = Len(parts)
    /\ SetSegState(Flush(SegState))
    /\ spc' = "done"
    /\ UNCHANGED <<page_no, parts, part_ix, meas_no, stream, lowerVars, mainVars>>

LowerIdle == /\ lpc = "idle" /\ score_notes = <<>> /\ truth = NoTruth

SegStart ==
    /\ spc = "loop"
    /\ page_no = 0
    /\ parts = <<>>
    /\ part_ix = 0
    /\ meas_no = 0
    /\ stream = <<>>
    /\ current_carol = SegInit.current_carol
    /\ carol_count = SegInit.carol_count
    /\ saved = SegInit.saved

MainIdle ==
    /\ mpc = "idle"
    /\ args = [skip_omr |-> FALSE, input |-> "dir"]
    /\ env = [HAS_MUSIC21 |-> TRUE, pdf2image |-> TRUE]
    /\ img_files = {}
    /\ images = <<>>
    /\ img_ix = 1
    /\ xml_dir = <<>>
    /\ omr_calls = <<>>
    /\ split_calls = 0
    /\ exit_code = "running"

Init == LowerIdle /\ SegStart /\ MainIdle

Next == OpenPage \/ NextPart \/ ReadMeasure \/ Finish

Spec == Init /\ [][Next]_vars

----------------------------------------------------------------------------
\* musicxml_to_truth on its own: any score of at most MaxEls elements.

SegIdle ==
    /\ spc = "idle"
    /\ page_no = 0
    /\ parts = <<>>
    /\ part_ix = 0
    /\ meas_no = 0
    /\ stream = <<>>
    /\ current_carol = <<>>
    /\ carol_count = FirstCarol
    /\ saved = <<>>

LowerInit ==
    /\ lpc = "call"
    /\ score_notes \in SeqsUpTo(Elements, MaxEls)
    /\ truth = NoTruth
    /\ SegIdle
    /\ MainIdle

Lower ==
    /\ lpc = "call"
    /\ truth' = musicxml_to_truth(score_notes)
    /\ lpc' = "done"
    /\ UNCHANGED <<score_notes, segVars, mainVars>>

LowerNext == Lower

SpecLower == LowerInit /\ [][LowerNext]_vars

----------------------------------------------------------------------------
\* main

\* A file name: a page stem and a suffix.  Stems are zero-padded numbers of
\* one width (page_000, page_001, ...), which compare as strings the way
\* the numbers compare.
Suffixes == <<"jpeg", "jpg", "musicxml", "png", "txt">>     \* in string order
FileNames == [stem : 0..(MaxImages - 1), ext : {"png", "txt"}]

SuffixRank(x) == CHOOSE r \in 1..Len(Suffixes) : Suffixes[r] = x

NameLess(a, b) ==
    \/ a.stem < b.stem
    \/ a.stem = b.stem /\ SuffixRank(a.ext) < SuffixRank(b.ext)

\* sorted(...)
RECURSIVE SortedDescending(_)
SortedDescending(S) ==
    IF S = {} THEN <<>>
    ELSE LET hi == CHOOSE x \in S : \A y \in S \ {x} : NameLess(y, x)
         IN <<hi>> \o SortedDescending(S \ {hi})

RECURSIVE Sorted(_)
Sorted(S) ==
    IF S = {} THEN <<>>
    ELSE LET lo == CHOOSE x \in S : \A y \in S \ {x} : NameLess(x, y)
         IN <<lo>> \o Sorted(S \ {lo})

\* line 217: the image files of the directory, sorted
ListImages(files) == Sorted({f \in files : f.ext \in {"png", "jpg", "jpeg"}})

\* line 196: page_{i:03d}.png for the pages of the PDF
BurstNames(npages) == {[stem |-> i, ext |-> "png"] : i \in 0..(npages - 1)}

\* A parsed notation file: its number of parts and, per entry of `parts`
\* (line 128), the Measures as <<notes, rightBarline>>.
PageClosed == [nparts |-> 1, parts |-> << << <<<<AQuarter>>, <<"final">>>> >> >>]
PageOpen == [nparts |-> 0, parts |-> << << <<<<AQuarter>>, NoBarline>> >> >>]
PageScores == {PageClosed, PageOpen}

\* lines 125-131: the Measures of the pg-th file, part by part
PageMeasures(score, pg) ==
    LET ps == PartsOf(score.nparts)
    IN Concat([i \in 1..Len(ps) |->
                 [k \in 1..Len(score.parts[i]) |->
                     Measure(pg, ps[i], k, score.parts[i][k][1], score.parts[i][k][2])]])

RECURSIVE FoldBody(_, _)
FoldBody(st, ms) == IF ms = <<>> THEN st ELSE FoldBody(LoopBody(st, ms[1]), Tail(ms))

\* line 115: the xml files, sorted (every file of xml_dir is a .musicxml file)
XmlFiles(dir) == Sorted({[stem |-> x, ext |-> "musicxml"] : x \in DOMAIN dir})

\* lines 110-146, whole
split_and_convert(dir) ==
    LET xml_files == XmlFiles(dir)
        ms == Concat([i \in 1..Len(xml_files) |-> PageMeasures(dir[xml_files[i].stem], i)])
    IN Flush(FoldBody(SegInit, ms)).saved

\* lines 172-205: which way main leaves its checks
StartBranchSkipFirst(a, e) ==
    IF a.skip_omr THEN "skip"
    ELSE IF ~e.HAS_MUSIC21 THEN "no_music21"
    ELSE IF a.input = "pdf" THEN (IF e.pdf2image THEN "burst" ELSE "no_pdf2image")
    ELSE IF a.input = "dir" THEN "use_dir"
    ELSE "invalid"

StartBranch(a, e) ==
    IF ~e.HAS_MUSIC21 THEN "no_music21"
    ELSE IF a.skip_omr THEN "skip"
    ELSE IF a.input = "pdf" THEN (IF e.pdf2image THEN "burst" ELSE "no_pdf2image")
    ELSE IF a.input = "dir" THEN "use_dir"
    ELSE "invalid"

Exit(code) ==
    /\ mpc' = "exit"
    /\ exit_code' = code

\* lines 172-174
ExitNoMusic21 ==
    /\ mpc = "start"
    /\ StartBranch(args, env) = "no_music21"
    /\ Exit(1)
    /\ UNCHANGED <<args, env, img_files, images, img_ix, xml_dir, omr_calls, split_calls,
                   lowerVars, segVars>>

\* line 188, --skip-omr given
SkipOmr ==
    /\ mpc = "start"
    /\ StartBranch(args, env) = "skip"
    /\ mpc' = "split"
    /\ UNCHANGED <<args, env, img_files, images, img_ix, xml_dir, omr_calls, split_calls,
                   exit_code, lowerVars, segVars>>

\* lines 190-196, 217: the PDF's pages are saved into temp/images
BurstPdf ==
    /\ mpc = "start"
    /\ StartBranch(args, env) = "burst"
    /\ \E npages \in 1..MaxImages :
          /\ img_files' = img_files \cup BurstNames(npages)
          /\ images' = ListImages(img_files \cup BurstNames(npages))
    /\ img_ix' = 1
    /\ mpc' = "omr"
    /\ UNCHANGED <<args, env, xml_dir, omr_calls, split_calls, exit_code, lowerVars, segVars>>

\* lines 197-199
ExitNoPdf2image ==
    /\ mpc = "start"
    /\ StartBranch(args, env) = "no_pdf2image"
    /\ Exit(1)
    /\ UNCHANGED <<args, env, img_files, images, img_ix, xml_dir, omr_calls, split_calls,
                   lowerVars, segVars>>

\* lines 200-202, 217
UseImageDir ==
    /\ mpc = "start"
    /\ StartBranch(args, env) = "use_dir"
    /\ images' = ListImages(img_files)
    /\ img_ix' = 1
    /\ mpc' = "omr"
    /\ UNCHANGED <<args, env, img_files, xml_dir, omr_calls, split_calls, exit_code,
                   lowerVars, segVars>>

\* lines 203-205
ExitInvalidInput ==
    /\ mpc = "start"
    /\ StartBranch(args, env) = "invalid"
    /\ Exit(1)
    /\ UNCHANGED <<args, env, img_files, images, img_ix, xml_dir, omr_calls, split_calls,
                   lowerVars, segVars>>

\* lines 218-233: the subprocess for the next page returns 0 and has written
\* the page's notation file
OemerOk ==
    /\ mpc = "omr"
    /\ img_ix <= Len(images)
    /\ \E score \in PageScores :
          xml_dir' = [x \in DOMAIN xml_dir \cup {images[img_ix].stem} |->
                         IF x = images[img_ix].stem THEN score ELSE xml_dir[x]]
    /\ omr_calls' = Append(omr_calls, [img |-> images[img_ix], returncode |-> 0])
    /\ img_ix' = img_ix + 1
    /\ UNCHANGED <<mpc, args, env, img_files, images, split_calls, exit_code,
                   lowerVars, segVars>>

\* lines 234-236: what main does when the subprocess failed on page ix
SkipFailedPage(ix) == [mpc |-> "omr", exit_code |-> "running", img_ix |-> ix + 1]
OnCalledProcessError(ix) == [mpc |-> "exit", exit_code |-> 1, img_ix |-> ix]

\* lines 218-236: the subprocess for the next page returns non-zero
OemerFails ==
    /\ mpc = "omr"
    /\ img_ix <= Len(images)
    /\ omr_calls' = Append(omr_calls, [img |-> images[img_ix], returncode |-> 1])
    /\ LET to == OnCalledProcessError(img_ix)
       IN /\ mpc' = to.mpc
          /\ exit_code' = to.exit_code
          /\ img_ix' = to.img_ix
    /\ UNCHANGED <<args, env, img_files, images, xml_dir, split_calls, lowerVars, segVars>>

\* lines 238-241 and the return from main: exit status 0
SplitAndConvert ==
    /\ \/ mpc = "split"
       \/ mpc = "omr" /\ img_ix > Len(images)
    /\ saved' = split_and_convert(xml_dir)
    /\ split_calls' = split_calls + 1
    /\ Exit(0)
    /\ UNCHANGED <<args, env, img_files, images, img_ix, xml_dir, omr_calls, lowerVars,
                   spc, page_no, parts, part_ix, meas_no, stream, current_carol, carol_count>>

\* Notation files left in temp/xml by earlier runs.
StaleXml == {<<>>} \cup {[x \in {0} |-> s] : s \in PageScores}

MainInit ==
    /\ mpc = "start"
    /\ args \in [skip_omr : BOOLEAN, input : {"pdf", "dir", "other"}]
    /\ env \in [HAS_MUSIC21 : BOOLEAN, pdf2image : BOOLEAN]
    /\ img_files \in SUBSET FileNames
    /\ args.input = "other" => img_files = {}
    /\ images = <<>>
    /\ img_ix = 1
    /\ xml_dir \in StaleXml
    /\ omr_calls = <<>>
    /\ split_calls = 0
    /\ exit_code = "running"
    /\ LowerIdle
    /\ SegIdle

MainNext ==
    \/ ExitNoMusic21
    \/ SkipOmr
    \/ BurstPdf
    \/ ExitNoPdf2image
    \/ UseImageDir
    \/ ExitInvalidInput
    \/ OemerOk
    \/ OemerFails
    \/ SplitAndConvert

SpecMain == MainInit /\ [][MainNext]_vars

----------------------------------------------------------------------------
\* Properties of musicxml_to_truth (checked under SpecLower).

PitchCount(el) == IF el.isChord THEN Len(el.pitches) ELSE 1

TotalPitches(notes) == SumSeq([i \in 1..Len(notes) |-> PitchCount(notes[i])])

\* Number of events emitted before element i is reached.
EmittedBefore(notes, i) == 2 * TotalPitches(SubSeq(notes, 1, i - 1))

\* The k-th event of the per-element expansion: elements in iteration order,
\* pitches in chord order, the NoteOn of a pitch right before its NoteOff.
EmissionAt(notes, k) ==
    LET i == CHOOSE x \in 1..Len(notes) :
                 /\ EmittedBefore(notes, x) < k
                 /\ k <= EmittedBefore(notes, x) + 2 * PitchCount(notes[x])
        r == k - EmittedBefore(notes, i)
        j == (r + 1) \div 2
        el == notes[i]
    IN IF r % 2 = 1
       THEN <<el.offset, [NoteOn |-> [note |-> el.pitches[j], velocity |-> 90, channel |-> 0]]>>
       ELSE <<el.offset + el.quarterLength, [NoteOff |-> [note |-> el.pitches[j], channel |-> 0]]>>

Emission(notes) == [k \in 1..(2 * TotalPitches(notes)) |-> EmissionAt(notes, k)]

AtTime(evs, t) == SelectSeq(evs, LAMBDA e : e[1] = t)

RECURSIVE GroupedFrom(_, _, _)
GroupedFrom(evs, t, last) ==
    IF t > last THEN <<>> ELSE AtTime(evs, t) \o GroupedFrom(evs, t + 1, last)

LastTime(evs) ==
    IF evs = <<>> THEN 0
    ELSE CHOOSE t \in {evs[k][1] : k \in 1..Len(evs)} :
             \A k \in 1..Len(evs) : evs[k][1] <= t

NonDecreasing(evs) == \A k \in 1..(Len(evs) - 1) : evs[k][1] <= evs[k + 1][1]

IsOn(e) == "NoteOn" \in DOMAIN e[2]
IsOff(e) == "NoteOff" \in DOMAIN e[2]
PitchOf(e) == IF IsOn(e) THEN e[2].NoteOn.note ELSE e[2].NoteOff.note

\* C4: the returned events are non-decreasing in timestamp, and events of
\* equal timestamp keep the order in which the expansion emitted them: the
\* result is the emission sequence regrouped by ascending timestamp, each
\* group in emission order.
C4_StableTimestampOrder ==
    lpc = "done" =>
        LET raw == Emission(score_notes)
        IN /\ NonDecreasing(truth.events)
           /\ truth.events = GroupedFrom(raw, 0, LastTime(raw))

\* A tie where ordering by kind or by pitch would swap the two events, in a
\* score whose elements were met out of timestamp order.
C4_Witness ==
    /\ lpc = "done"
    /\ \E i \in 1..Len(score_notes) : \E j \in (i + 1)..Len(score_notes) :
           score_notes[i].offset > score_notes[j].offset
    /\ \E k \in 1..(Len(truth.events) - 1) :
           /\ truth.events[k][1] = truth.events[k + 1][1]
           /\ IsOff(truth.events[k]) /\ IsOn(truth.events[k + 1])
           /\ PitchOf(truth.events[k]) > PitchOf(truth.events[k + 1])

CountOf(evs, e) == Cardinality({k \in 1..Len(evs) : evs[k] = e})

SourcesOn(notes, t, n) ==
    {<<i, j>> \in (1..Len(notes)) \X (1..MaxChord + 1) :
        /\ j <= PitchCount(notes[i])
        /\ notes[i].pitches[j] = n
        /\ notes[i].offset = t}

SourcesOff(notes, t, n) ==
    {<<i, j>> \in (1..Len(notes)) \X (1..MaxChord + 1) :
        /\ j <= PitchCount(notes[i])
        /\ notes[i].pitches[j] = n
        /\ notes[i].offset + notes[i].quarterLength = t}

Times == Offsets \cup {o + d : o \in Offsets, d \in Durations}

\* C5: every pitch of every element gives one NoteOn (velocity 90, channel 0)
\* at the element's onset and one NoteOff (channel 0) at onset + duration;
\* the list has 2 x (number of pitches) entries, coincident ones all kept.
C5_OnOffPerPitch ==
    lpc = "done" =>
        /\ Len(truth.events) = 2 * TotalPitches(score_notes)
        /\ \A t \in Times, n \in Pitches :
              /\ CountOf(truth.events,
                         <<t, [NoteOn |-> [note |-> n, velocity |-> 90, channel |-> 0]]>>)
                     = Cardinality(SourcesOn(score_notes, t, n))
              /\ CountOf(truth.events, <<t, [NoteOff |-> [note |-> n, channel |-> 0]]>>)
                     = Cardinality(SourcesOff(score_notes, t, n))

\* A two-pitch chord and a second element that repeats one of its events.
C5_Witness ==
    /\ lpc = "done"
    /\ \E i \in 1..Len(score_notes) :
           score_notes[i].isChord /\ Len(score_notes[i].pitches) = 2
    /\ \E k \in 1..Len(truth.events) : CountOf(truth.events, truth.events[k]) >= 2
    /\ Len(score_notes) = 2

OnsIn(evs, k, p) == Cardinality({x \in 1..k : IsOn(evs[x]) /\ PitchOf(evs[x]) = p})
OffsIn(evs, k, p) == Cardinality({x \in 1..k : IsOff(evs[x]) /\ PitchOf(evs[x]) = p})

\* C10: in the sorted events no prefix holds more NoteOff than NoteOn events
\* of a pitch, and the whole sequence holds as many of the one as of the other.
C10_OffNeverFirst ==
    lpc = "done" =>
        \A p \in Pitches :
            /\ \A k \in 0..Len(truth.events) :
                   OffsIn(truth.events, k, p) <= OnsIn(truth.events, k, p)
            /\ OffsIn(truth.events, Len(truth.events), p)
                   = OnsIn(truth.events, Len(truth.events), p)

\* A zero-duration element, met before an element of earlier onset.
C10_Witness ==
    /\ lpc = "done"
    /\ \E i \in 1..Len(score_notes) : \E j \in (i + 1)..Len(score_notes) :
           /\ score_notes[i].quarterLength = 0
           /\ score_notes[i].offset > score_notes[j].offset
           /\ score_notes[i].pitches[1] = score_notes[j].pitches[1]

----------------------------------------------------------------------------
\* Properties of split_and_convert (checked under Spec).

TerminalAt(s) == {i \in 1..Len(s) : s[i].rightBarline \in {<<"final">>, <<"double">>}}

\* Position in s of the k-th Measure with a terminal barline; 0 for k = 0.
CutAt(s, k) ==
    IF k = 0 THEN 0
    ELSE CHOOSE i \in TerminalAt(s) : Cardinality({j \in TerminalAt(s) : j <= i}) = k

Closed(s) == Cardinality(TerminalAt(s))

Residual(s) == SubSeq(s, CutAt(s, Closed(s)) + 1, Len(s))

HasNote(ms) == \E i \in 1..Len(ms) : ms[i].notes # <<>>

\* C1: at every point of the run there are exactly as many Compositions
\* closed by a barline as terminal-barline ('final' or 'double') Measures
\* read, the k-th is the run of input Measures after the (k-1)-th terminal
\* Measure up to and including the k-th, and the open accumulator is the
\* rest of the input read so far.
C1_ClosedAtTerminalBarlines ==
    LET n == Closed(stream)
    IN /\ spc = "loop" => Len(saved) = n
       /\ spc = "done" => Len(saved) \in {n, n + 1}
       /\ \A k \in 1..n :
              saved[k].score = SubSeq(stream, CutAt(stream, k - 1) + 1, CutAt(stream, k))
       /\ spc = "loop" => current_carol = Residual(stream)

\* A Composition of two Measures from two pages, the first with a plain barline.
C1_Witness ==
    /\ Len(saved) >= 1
    /\ Len(saved[1].score) = 2
    /\ saved[1].score[1].rightBarline = <<"regular">>
    /\ saved[1].score[1].page # saved[1].score[2].page

\* C2: when the input is exhausted the residual accumulator is emitted as one
\* last Composition if and only if it holds at least one note or chord.
C2_ResidualFlush ==
    spc = "done" =>
        LET n == Closed(stream)
            rest == Residual(stream)
        IN /\ HasNote(rest) => Len(saved) = n + 1 /\ saved[n + 1].score = rest
           /\ ~HasNote(rest) => Len(saved) = n

\* A note Measure closed by 'final', then a note Measure with no barline.
C2_Witness ==
    /\ spc = "done"
    /\ Len(stream) = 2
    /\ TerminalAt(stream) = {1}
    /\ stream[2].rightBarline = <<>>
    /\ Len(saved) = 2
    /\ Len(saved[2].truth.events) = 2

\* C3: every Composition given to save_carol holds at least one note or
\* chord, so no truth record with an empty events list is written.
C3_NoEmptyComposition ==
    \A k \in 1..Len(saved) :
        /\ HasNote(saved[k].score)
        /\ saved[k].truth.events # <<>>

\* C6: the i-th Composition emitted is written as carol_00i (.musicxml and
\* .truth.json), no name is used twice, and the counter is one more than
\* the number of Compositions closed so far.
C6_SequentialNumbers ==
    /\ \A i \in 1..Len(saved) :
          /\ i < 10 => saved[i].name = <<"carol_", 0, 0, i>>
          /\ saved[i].xml_path = Append(saved[i].name, ".musicxml")
          /\ saved[i].truth_path = Append(saved[i].name, ".truth.json")
          /\ \A j \in 1..Len(saved) : saved[i].name = saved[j].name => i = j
    /\ spc = "loop" => carol_count = Len(saved) + 1
    /\ spc = "done" => carol_count \in {Len(saved), Len(saved) + 1}

\* Two Compositions, the second flushed as residual.
C6_Witness ==
    /\ spc = "done"
    /\ Len(saved) = 2
    /\ carol_count = 2
    /\ saved[2].name = <<"carol_", 0, 0, 2>>

PageAt(s, pg) == {i \in 1..Len(s) : s[i].page = pg}
PartsSeen(s, pg) == {s[i].part : i \in PageAt(s, pg)}
LastOfPart(s, pg) ==
    {i \in PageAt(s, pg) :
        \A j \in PageAt(s, pg) : s[j].part = s[i].part => s[j].number <= s[i].number}

\* C7: the Measures of a page with several parts, each part ending with a
\* terminal barline on its last Measure and nowhere else, all lie in one
\* Composition.
C7_PartsShareComposition ==
    spc = "done" =>
        \A pg \in 1..page_no :
            (/\ Cardinality(PartsSeen(stream, pg)) >= 2
             /\ TerminalAt(stream) \cap PageAt(stream, pg) = LastOfPart(stream, pg))
            => \E k \in 1..Len(saved) :
                   \A i \in PageAt(stream, pg) :
                       \E x \in 1..Len(saved[k].score) : saved[k].score[x] = stream[i]

----------------------------------------------------------------------------
\* Properties of main (checked under SpecMain).

ImageSet == {f \in img_files : f.ext \in {"png", "jpg", "jpeg"}}

SomePageFailed == \E k \in 1..Len(omr_calls) : omr_calls[k].returncode # 0

C9_FailFast ==
    \A k \in 1..Len(omr_calls) :
        /\ omr_calls[k].img \in ImageSet
        /\ Cardinality({g \in ImageSet : g.stem < omr_calls[k].img.stem}) = k - 1
        /\ omr_calls[k].returncode # 0 =>
              /\ k = Len(omr_calls)
              /\ mpc = "exit"
              /\ exit_code = 1
              /\ split_calls = 0
              /\ saved = <<>>
              /\ \A j \in 1..(k - 1) : omr_calls[j].img.stem \in DOMAIN xml_dir

\* Three pages: the first recognized, the second failed, the third untouched.
C9_Witness ==
    /\ Cardinality(ImageSet) = 3
    /\ Len(omr_calls) = 2
    /\ omr_calls[1].returncode = 0
    /\ omr_calls[2].returncode # 0
    /\ mpc = "exit"
    /\ DOMAIN xml_dir = {omr_calls[1].img.stem}

====
